---- MODULE Spec2Model ----
(***************************************************************************)
(* ForecastEdge: SEO Traffic Planner (seo-traffic-app.py).                 *)
(*                                                                         *)
(* The script body main() is modelled as a state machine, one action per   *)
(* block of the script; forecast_traffic, detect_anomalies and             *)
(* calculate_accuracy_metrics are operators over a small model of a pandas *)
(* DataFrame (column names, index labels, rows of cells).                  *)
(*                                                                         *)
(* Every cell and every computed number is a tagged tuple:                 *)
(*   <<"str", chars>>       text as read with dtype=str                    *)
(*   <<"num", n>>           a float holding the integer n                  *)
(*   <<"frac", n, d>>       the float n / d (d > 0)                        *)
(*   <<"z", sgn, n, d>>     the float sgn * sqrt(n / d) (a z-score)        *)
(*   <<"nan">>, <<"inf">>   the float specials (NaN is also a missing cell)*)
(*   <<"date", y, m, d>>    a timestamp at midnight; <<"nat">> is NaT      *)
(***************************************************************************)
EXTENDS Integers, Sequences, FiniteSets, TLC

VARIABLES pc, menu, uploaded_file, data, anomalies, forecast_period,
          confidence_interval, forecast, model, metrics, insights, shown, exc

vars == <<pc, menu, uploaded_file, data, anomalies, forecast_period,
          confidence_interval, forecast, model, metrics, insights, shown, exc>>

(***************************************************************************)
(* Bounds of the model                                                     *)
(***************************************************************************)
\* Longest uploaded file (data rows) the script is run on.
MaxRows == 3
\* Longest series detect_anomalies is applied to on its own.
MaxDetectLen == 6
\* Longest series forecast_traffic is applied to on its own.
MaxSeriesLen == 2
\* Largest horizon forecast_traffic is applied to on its own.
MaxHorizon == 2

(***************************************************************************)
(* Generic helpers                                                         *)
(***************************************************************************)
NaN == <<"nan">>
NaT == <<"nat">>
Inf == <<"inf">>
Str(chars) == <<"str", chars>>
Num(n) == <<"num", n>>
Frac(n, d) == <<"frac", n, d>>
Date(ymd) == <<"date", ymd[1], ymd[2], ymd[3]>>
Tag(c) == c[1]
\* the calendar month <<year, month>> of a timestamp cell
MonthOf(c) == <<c[2], c[3]>>

Abs(x) == IF x < 0 THEN -x ELSE x

RECURSIVE SumSeq(_)
SumSeq(s) == IF s = <<>> THEN 0 ELSE Head(s) + SumSeq(Tail(s))

RECURSIVE SelectIdx(_, _, _)
\* the positions i of 1..n, ascending, that satisfy keep[i]
SelectIdx(keep, i, n) ==
    IF i > n THEN <<>>
    ELSE IF keep[i] THEN <<i>> \o SelectIdx(keep, i + 1, n)
    ELSE SelectIdx(keep, i + 1, n)

\* s[:k]
Take(s, k) == SubSeq(s, 1, IF k < Len(s) THEN k ELSE Len(s))

\* s without its element at position k
DropAt(s, k) == SubSeq(s, 1, k - 1) \o SubSeq(s, k + 1, Len(s))

\* the sequence f as an explicit tuple
Tuple(f) == SubSeq(f, 1, Len(f))

RECURSIVE IndexOf(_, _, _)
\* first position of x in s at or after i, 0 when absent
IndexOf(s, x, i) ==
    IF i > Len(s) THEN 0
    ELSE IF s[i] = x THEN i
    ELSE IndexOf(s, x, i + 1)

(***************************************************************************)
(* Calendar                                                                *)
(***************************************************************************)
IsLeap(y) == (y % 4 = 0 /\ y % 100 # 0) \/ y % 400 = 0

DaysInMonth(y, m) ==
    IF m = 2 THEN (IF IsLeap(y) THEN 29 ELSE 28)
    ELSE IF m \in {4, 6, 9, 11} THEN 30
    ELSE 31

\* timestamp cells are compared lexicographically on year, month, day
DateLT(a, b) ==
    \/ a[2] < b[2]
    \/ a[2] = b[2] /\ a[3] < b[3]
    \/ a[2] = b[2] /\ a[3] = b[3] /\ a[4] < b[4]

DateGT(a, b) == DateLT(b, a)

RECURSIVE DateMax(_)
\* Series.max() over a non-empty sequence of timestamps
DateMax(ds) ==
    IF Len(ds) = 1 THEN ds[1]
    ELSE LET m == DateMax(Tail(ds))
         IN IF DateLT(m, ds[1]) THEN ds[1] ELSE m

\* the calendar month k months after the month ym = <<year, month>>
AddMonths(ym, k) ==
    LET t == ym[1] * 12 + (ym[2] - 1) + k
    IN <<t \div 12, (t % 12) + 1>>

\* the month-end anchor of pandas' freq='M' in the month <<year, month>>
MonthEnd(ym) == Date(<<ym[1], ym[2], DaysInMonth(ym[1], ym[2])>>)

(***************************************************************************)
(* Text conversions of lines 122-123                                       *)
(***************************************************************************)
Digits == {"0", "1", "2", "3", "4", "5", "6", "7", "8", "9"}

DigitVal(c) ==
    CASE c = "0" -> 0 [] c = "1" -> 1 [] c = "2" -> 2 [] c = "3" -> 3
      [] c = "4" -> 4 [] c = "5" -> 5 [] c = "6" -> 6 [] c = "7" -> 7
      [] c = "8" -> 8 [] c = "9" -> 9

RECURSIVE DecimalValue(_)
\* the value of a non-empty string of decimal digits
DecimalValue(chars) ==
    IF Len(chars) = 1 THEN DigitVal(chars[1])
    ELSE 10 * DecimalValue(SubSeq(chars, 1, Len(chars) - 1))
         + DigitVal(chars[Len(chars)])

AllDigits(chars) == Len(chars) > 0 /\ \A i \in 1..Len(chars) : chars[i] \in Digits

\* the abbreviated month names of directive %b, January first
MonthAbbr ==
    << <<"J","a","n">>, <<"F","e","b">>, <<"M","a","r">>, <<"A","p","r">>,
       <<"M","a","y">>, <<"J","u","n">>, <<"J","u","l">>, <<"A","u","g">>,
       <<"S","e","p">>, <<"O","c","t">>, <<"N","o","v">>, <<"D","e","c">> >>

\* directive %y: 00-68 are 2000-2068, 69-99 are 1969-1999
TwoDigitYear(yy) == IF yy <= 68 THEN 2000 + yy ELSE 1900 + yy

\* pd.to_datetime(cell, format='%b-%y', errors='coerce') on one cell
ToDatetime(cell) ==
    IF Tag(cell) # "str" THEN NaT
    ELSE LET chars == cell[2]
         IN IF /\ Len(chars) = 6
               /\ IndexOf(MonthAbbr, SubSeq(chars, 1, 3), 1) # 0
               /\ chars[4] = "-"
               /\ AllDigits(SubSeq(chars, 5, 6))
            THEN Date(<<TwoDigitYear(DecimalValue(SubSeq(chars, 5, 6))),
                        IndexOf(MonthAbbr, SubSeq(chars, 1, 3), 1), 1>>)
            ELSE NaT

\* to_numeric that turns what it cannot parse into 0 instead of NaN
ToNumericFillZero(cell) ==
    IF Tag(cell) # "str" THEN NaN
    ELSE IF AllDigits(cell[2]) THEN Num(DecimalValue(cell[2]))
    ELSE Num(0)

\* pd.to_numeric(cell, errors='coerce') on one cell (integer literals)
ToNumeric(cell) ==
    IF Tag(cell) # "str" THEN NaN
    ELSE LET chars == cell[2]
         IN IF AllDigits(chars) THEN Num(DecimalValue(chars))
            ELSE IF Len(chars) > 1 /\ chars[1] = "-" /\ AllDigits(Tail(chars))
            THEN Num(0 - DecimalValue(Tail(chars)))
            ELSE NaN

IsNull(cell) == Tag(cell) \in {"nan", "nat"}

(***************************************************************************)
(* DataFrame: column names, index labels, rows of cells                    *)
(***************************************************************************)
Frame(columns, index, rows) ==
    [columns |-> columns, index |-> Tuple(index),
     rows |-> Tuple([i \in 1..Len(rows) |-> Tuple(rows[i])])]

EmptyFrame == Frame(<<>>, <<>>, <<>>)

NRows(df) == Len(df.rows)

\* df[name] as the sequence of its cells
Col(df, name) ==
    LET k == IndexOf(df.columns, name, 1)
    IN Tuple([i \in 1..NRows(df) |-> df.rows[i][k]])

\* df.iloc[:, :k]
ILocColumns(df, k) ==
    Frame(Take(df.columns, k), df.index, [i \in 1..NRows(df) |-> Take(df.rows[i], k)])

\* df[name] = cells, for an existing or a new column
AssignColumn(df, name, cells) ==
    LET k == IndexOf(df.columns, name, 1)
    IN IF k # 0
       THEN Frame(df.columns, df.index,
                  [i \in 1..NRows(df) |-> [df.rows[i] EXCEPT ![k] = cells[i]]])
       ELSE Frame(Append(df.columns, name), df.index,
                  [i \in 1..NRows(df) |-> Append(df.rows[i], cells[i])])

\* df[mask]: the rows at the kept positions, with their index labels
TakeRows(df, keep) ==
    LET sel == SelectIdx(keep, 1, NRows(df))
    IN Frame(df.columns,
             [i \in 1..Len(sel) |-> df.index[sel[i]]],
             [i \in 1..Len(sel) |-> df.rows[sel[i]]])

\* df.dropna(): a row is dropped when any of its cells is null
DropNa(df) ==
    TakeRows(df, [i \in 1..NRows(df) |->
                    \A k \in 1..Len(df.columns) : ~IsNull(df.rows[i][k])])

\* df.set_index(name): the column leaves the columns and becomes the index
SetIndex(df, name) ==
    LET k == IndexOf(df.columns, name, 1)
    IN Frame(DropAt(df.columns, k), Col(df, name),
             [i \in 1..NRows(df) |-> DropAt(df.rows[i], k)])

\* df.reset_index(): the index becomes the first column, labels are 0..n-1
ResetIndex(df, name) ==
    Frame(<<name>> \o df.columns, [i \in 1..NRows(df) |-> Num(i - 1)],
          [i \in 1..NRows(df) |-> <<df.index[i]>> \o df.rows[i]])

\* df[[names]]: the named columns, in the order asked
SelectColumns(df, names) ==
    Frame(names, df.index,
          [i \in 1..NRows(df) |->
              [j \in 1..Len(names) |-> df.rows[i][IndexOf(df.columns, names[j], 1)]]])

(***************************************************************************)
(* Float arithmetic on the tagged numbers                                  *)
(***************************************************************************)
RECURSIVE GCD(_, _)
GCD(a, b) == IF b = 0 THEN a ELSE GCD(b, a % b)

\* the float n / d for integers n and d: 0/0 is NaN, x/0 is inf
Div(n, d) ==
    IF d = 0 THEN (IF n = 0 THEN NaN ELSE Inf)
    ELSE LET g == GCD(Abs(n), Abs(d))
             sg == IF d < 0 THEN -1 ELSE 1
         IN Frac((sg * n) \div g, (sg * d) \div g)

\* np.abs on a float
FAbs(x) ==
    CASE Tag(x) = "frac" -> Frac(Abs(x[2]), x[3])
      [] Tag(x) = "num" -> Num(Abs(x[2]))
      [] OTHER -> x

ToFrac(x) == IF Tag(x) = "num" THEN Frac(x[2], 1) ELSE x

\* x - y, x / y and x ** 2 on "num" floats; NaN propagates
FSub(x, y) == IF Tag(x) = "num" /\ Tag(y) = "num" THEN Num(x[2] - y[2]) ELSE NaN
FDiv(x, y) == IF Tag(x) = "num" /\ Tag(y) = "num" THEN Div(x[2], y[2]) ELSE NaN
FSquare(x) == IF Tag(x) = "num" THEN Num(x[2] * x[2]) ELSE NaN

\* 100 * x
Times100(x) == IF Tag(x) = "frac" THEN Div(100 * x[2], x[3]) ELSE x

\* np.sqrt(x), kept as the radicand
Sqrt(x) == IF Tag(x) = "frac" THEN <<"sqrt", x[2], x[3]>> ELSE x

RECURSIVE FracSum(_)
\* the sum of a sequence of "frac" floats
FracSum(fs) ==
    IF fs = <<>> THEN Frac(0, 1)
    ELSE LET r == FracSum(Tail(fs))
         IN Div(fs[1][2] * r[3] + r[2] * fs[1][3], fs[1][3] * r[3])

\* Series.mean(): NaN entries are skipped, inf is not
MeanSkipNa(xs) ==
    LET kept == SelectIdx([i \in 1..Len(xs) |-> Tag(xs[i]) # "nan"], 1, Len(xs))
        vals == [i \in 1..Len(kept) |-> xs[kept[i]]]
    IN IF Len(vals) = 0 THEN NaN
       ELSE IF \E i \in 1..Len(vals) : Tag(vals[i]) = "inf" THEN Inf
       ELSE LET t == FracSum([i \in 1..Len(vals) |-> ToFrac(vals[i])])
            IN Div(t[2], t[3] * Len(vals))

\* the integers held by a column of "num" cells
Ints(cells) == Tuple([i \in 1..Len(cells) |-> cells[i][2]])

(***************************************************************************)
(* detect_anomalies (lines 37-41)                                          *)
(***************************************************************************)
\* n times the deviation of y from the mean of ys
ScaledDev(y, ys) == Len(ys) * y - SumSeq(ys)

\* the sum of the squares of the scaled deviations
ScaledSS(ys) ==
    SumSeq(Tuple([j \in 1..Len(ys) |-> ScaledDev(ys[j], ys) * ScaledDev(ys[j], ys)]))

\* Series.std() is the square root of this variance with ddof = 0
PopulationVar(ys) ==
    LET n == Len(ys)
    IN IF n = 0 THEN NaN ELSE Frac(ScaledSS(ys), n * n * n)

\* the variance under Series.std(): ddof = 1, NaN for a single value
SampleVar(ys) ==
    LET n == Len(ys)
    IN IF n - 1 = 0 THEN NaN ELSE Frac(ScaledSS(ys), n * n * (n - 1))

\* (y - mean) / std, kept as sign and square
ZScore(y, ys) ==
    LET n == Len(ys)
        dev == ScaledDev(y, ys)
        var == SampleVar(ys)
    IN IF Tag(var) = "nan" THEN NaN
       ELSE IF var[2] = 0 THEN (IF dev = 0 THEN NaN ELSE Inf)
       ELSE <<"z", IF dev < 0 THEN -1 ELSE IF dev = 0 THEN 0 ELSE 1,
              dev * dev * var[3], n * n * var[2]>>

\* np.abs(z) > k; a comparison with NaN is False
AbsGreater(z, k) ==
    CASE Tag(z) = "nan" -> FALSE
      [] Tag(z) = "inf" -> TRUE
      [] OTHER -> z[3] > k * k * z[4]

ZThreshold == 2

\* the frame after line 39 and the frame returned by line 41
detect_anomalies(df) ==
    LET ys == Ints(Col(df, "y"))
        zs == Tuple([i \in 1..Len(ys) |-> ZScore(ys[i], ys)])
        scored == AssignColumn(df, "z_score", zs)
        hits == TakeRows(scored, [i \in 1..Len(ys) |-> AbsGreater(zs[i], ZThreshold)])
    IN [data |-> scored,
        anomalies |-> SelectColumns(hits, <<"ds", "y", "z_score">>)]

(***************************************************************************)
(* Prophet, as far as forecast_traffic uses it (lines 20-28)               *)
(***************************************************************************)
RECURSIVE SortUnique(_)
\* the distinct timestamps of ds, ascending
SortUnique(ds) ==
    IF ds = <<>> THEN <<>>
    ELSE LET m == CHOOSE x \in {ds[i] : i \in 1..Len(ds)} :
                     \A j \in 1..Len(ds) : ~DateLT(ds[j], x)
             rest == SelectIdx([i \in 1..Len(ds) |-> ds[i] # m], 1, Len(ds))
         IN <<m>> \o SortUnique([i \in 1..Len(rest) |-> ds[rest[i]]])

\* What the fit leaves in the model: the trend in half units (level at the
\* first history month, slope per month) and the half-width of the interval.
\* The optimiser is a black box; the fitted trend is any of these.
ProphetFits == [level2 : {0, 21}, slope2 : {0, 5}, spread : {2}]

\* no model has been fitted
NoModel == [fitted |-> FALSE, interval_width |-> 0, history_dates |-> <<>>,
            params |-> [level2 |-> 0, slope2 |-> 0, spread |-> 0]]

\* Prophet.fit refuses a history with fewer than 2 rows that have a value
FitRaises(df) ==
    Cardinality({i \in 1..NRows(df) : ~IsNull(Col(df, "y")[i])}) < 2

\* months from timestamp a to timestamp b
MonthsBetween(a, b) == (b[2] * 12 + b[3]) - (a[2] * 12 + a[3])

\* pd.date_range(start, periods=k, freq='M'): the first anchor is the end of
\* the month of start (on or after start), then one month end per month
DateRangeMonthEnd(start, k) ==
    [i \in 1..k |-> MonthEnd(AddMonths(MonthOf(start), i - 1))]

\* Prophet.make_future_dataframe(periods, freq='M', include_history=True)
make_future_dataframe(history_dates, periods) ==
    LET last == DateMax(history_dates)
        dates == DateRangeMonthEnd(last, periods + 1)
        after == SelectIdx([i \in 1..Len(dates) |-> DateGT(dates[i], last)], 1, Len(dates))
        new == Take([i \in 1..Len(after) |-> dates[after[i]]], periods)
    IN history_dates \o new

\* np.round of the float n / d: to the nearest integer, halves to even
RoundHalfEven(n, d) ==
    LET q == n \div d
        r == n - q * d
    IN IF 2 * r < d THEN q
       ELSE IF 2 * r > d THEN q + 1
       ELSE IF q % 2 = 0 THEN q ELSE q + 1

Round(x) == IF Tag(x) = "frac" THEN Num(RoundHalfEven(x[2], x[3])) ELSE x

\* Prophet.predict(future): one row per date of future, labelled 0..n-1
predict(fit, start, future) ==
    LET yhat(d) == Div(fit.level2 + fit.slope2 * MonthsBetween(start, d), 2)
        lower(d) == Div(fit.level2 + fit.slope2 * MonthsBetween(start, d) - 2 * fit.spread, 2)
        upper(d) == Div(fit.level2 + fit.slope2 * MonthsBetween(start, d) + 2 * fit.spread, 2)
    IN Frame(<<"ds", "yhat", "yhat_lower", "yhat_upper">>,
             [i \in 1..Len(future) |-> Num(i - 1)],
             [i \in 1..Len(future) |->
                 <<future[i], yhat(future[i]), lower(future[i]), upper(future[i])>>])

(***************************************************************************)
(* forecast_traffic (lines 9-35)                                           *)
(***************************************************************************)
\* line 11: timestamps pass through, text is parsed with '%b-%y'
ToDatetimeIndex(index) ==
    [i \in 1..Len(index) |->
        IF Tag(index[i]) = "date" THEN index[i] ELSE ToDatetime(index[i])]

\* The outcome of forecast_traffic(df, forecast_period, confidence_interval)
\* when the fit yields fit: the exception raised ("" when none), the frame
\* the caller passed as the call leaves it, and the returned forecast, model.
forecast_traffic(df, period, interval, fit) ==
    LET indexed == Frame(df.columns, ToDatetimeIndex(df.index), df.rows)
        prophet_df == ResetIndex(indexed, "ds")
        ds == Col(prophet_df, "ds")
        last_date == DateMax(ds)
        history_dates == SortUnique(ds)
        future == make_future_dataframe(history_dates, period)
        kept == SelectIdx([i \in 1..Len(future) |-> DateGT(future[i], last_date)],
                          1, Len(future))
        raw == predict(fit, history_dates[1], [i \in 1..Len(kept) |-> future[kept[i]]])
        rounded == Frame(raw.columns, raw.index,
                         [i \in 1..NRows(raw) |->
                             <<raw.rows[i][1], Round(raw.rows[i][2]),
                               Round(raw.rows[i][3]), Round(raw.rows[i][4])>>])
        failed(kind, arg) == [raised |-> kind, arg |-> arg, forecast |-> EmptyFrame,
                              model |-> NoModel]
    IN IF \E i \in 1..Len(df.index) : Tag(indexed.index[i]) = "nat"
       THEN failed("ValueError: time data does not match format", df)
       ELSE IF Len(prophet_df.columns) # 2
       THEN failed("ValueError: Length mismatch", indexed)
       ELSE IF FitRaises(prophet_df)
       THEN failed("ValueError: Dataframe has less than 2 non-NaN rows", indexed)
       ELSE [raised |-> "", arg |-> indexed, forecast |-> rounded,
             model |-> [fitted |-> TRUE, interval_width |-> interval,
                        history_dates |-> history_dates, params |-> fit]]

(***************************************************************************)
(* calculate_accuracy_metrics (lines 43-48) and generate_insights (88-90)  *)
(***************************************************************************)
\* a pandas Series: index labels and values
Series(index, values) == [index |-> Tuple(index), values |-> Tuple(values)]

\* the value of s at a label, NaN where s has no such label
AtLabel(s, label) ==
    LET k == IndexOf(s.index, label, 1)
    IN IF k = 0 THEN NaN ELSE s.values[k]

RECURSIVE SortLabels(_)
\* a set of integer labels as an ascending sequence
SortLabels(L) ==
    IF L = {} THEN <<>>
    ELSE LET m == CHOOSE x \in L : \A y \in L : x[2] <= y[2]
         IN <<m>> \o SortLabels(L \ {m})

\* the index of a binary operation on a and b: the union of their labels
UnionIndex(a, b) ==
    SortLabels({a.index[i] : i \in 1..Len(a.index)} \cup {b.index[i] : i \in 1..Len(b.index)})

\* actual - predicted: aligned on the labels, NaN where one side is missing
AlignedSub(a, b) ==
    LET idx == UnionIndex(a, b)
    IN Series(idx, [i \in 1..Len(idx) |-> FSub(AtLabel(a, idx[i]), AtLabel(b, idx[i]))])

\* (actual - predicted) / actual, aligned in the same way
AlignedDiv(a, b) ==
    LET idx == UnionIndex(a, b)
    IN Series(idx, [i \in 1..Len(idx) |-> FDiv(AtLabel(a, idx[i]), AtLabel(b, idx[i]))])

calculate_accuracy_metrics(actual, predicted) ==
    LET diff == AlignedSub(actual, predicted)
        pct == AlignedDiv(diff, actual)
    IN [mape |-> Times100(MeanSkipNa([i \in 1..Len(pct.values) |-> FAbs(pct.values[i])])),
        rmse |-> Sqrt(MeanSkipNa([i \in 1..Len(diff.values) |-> FSquare(diff.values[i])])),
        mae |-> MeanSkipNa([i \in 1..Len(diff.values) |-> FAbs(diff.values[i])])]

\* no metrics have been computed
NoMetrics == [mape |-> NaN, rmse |-> NaN, mae |-> NaN]

\* the growth rate that generate_insights formats into its sentence
generate_insights(fc) ==
    LET yhat == Col(fc, "yhat")
        first == yhat[1]
        last == yhat[Len(yhat)]
    IN Times100(FDiv(FSub(last, first), first))

(***************************************************************************)
(* The uploads the script is run on                                        *)
(***************************************************************************)
\* month labels as typed in the first column
RawLabels ==
    { Str(<<"J","a","n","-","2","4">>), Str(<<"D","e","c","-","2","3">>),
      Str(<<"2","0","2","4","-","0","1">>) }

\* traffic values as typed in the second column; NaN is an empty cell
RawValues == { Str(<<"7">>), Str(<<"1","0">>), Str(<<"a","b","c">>), NaN }

Notes == Str(<<"x">>)

Headers == { <<"Month">>, <<"Month", "Traffic">>, <<"Month", "Traffic", "Notes">> }

\* a file with header h whose rows have the labels l and the values v
FileOf(h, l, v) ==
    [present |-> TRUE, columns |-> h,
     rows |-> [i \in 1..Len(l) |->
                 IF Len(h) = 1 THEN <<l[i]>>
                 ELSE IF Len(h) = 2 THEN <<l[i], v[i]>>
                 ELSE <<l[i], v[i], Notes>>]]

NoFile == [present |-> FALSE, columns |-> <<>>, rows |-> <<>>]

\* the options of the radio button (line 144)
ForecastPeriods == {6, 12}

\* values of the slider (line 148): its default and one other position
ConfidenceIntervals == {80, 95}

(***************************************************************************)
(* main (lines 92-211)                                                     *)
(***************************************************************************)
Init ==
    /\ pc = "start"
    /\ \/ menu = "Documentation" /\ uploaded_file = NoFile
       \/ menu = "Forecast Tool" /\ uploaded_file = NoFile
       \/ /\ menu = "Forecast Tool"
          /\ \E h \in Headers, n \in 0..MaxRows :
               \E l \in [1..n -> RawLabels] :
                 \E v \in (IF Len(h) = 1 THEN {<<>>} ELSE [1..n -> RawValues]) :
                   uploaded_file = FileOf(h, l, v)
    /\ data = EmptyFrame
    /\ anomalies = EmptyFrame
    /\ forecast_period = 0
    /\ confidence_interval = 0
    /\ forecast = EmptyFrame
    /\ model = NoModel
    /\ metrics = NoMetrics
    /\ insights = NaN
    /\ shown = <<>>
    /\ exc = ""

\* raise: control passes to the except clause of line 184
Raise(kind) == pc' = "except" /\ exc' = kind

\* lines 187-211
ShowDocumentation ==
    /\ pc = "start" /\ menu = "Documentation"
    /\ shown' = Append(shown, "documentation")
    /\ pc' = "done"
    /\ UNCHANGED <<menu, uploaded_file, data, anomalies, forecast_period,
                   confidence_interval, forecast, model, metrics, insights, exc>>

\* line 105 with no file uploaded: the script ends
NoUpload ==
    /\ pc = "start" /\ menu = "Forecast Tool" /\ ~uploaded_file.present
    /\ pc' = "done"
    /\ UNCHANGED <<menu, uploaded_file, data, anomalies, forecast_period,
                   confidence_interval, forecast, model, metrics, insights, shown, exc>>

\* lines 105-115: read the file as text, refuse fewer than two columns
ReadFile ==
    /\ pc = "start" /\ menu = "Forecast Tool" /\ uploaded_file.present
    /\ data' = Frame(uploaded_file.columns,
                     [i \in 1..Len(uploaded_file.rows) |-> Num(i - 1)],
                     uploaded_file.rows)
    /\ IF Len(uploaded_file.columns) < 2
       THEN Raise("ValueError: Uploaded file must have at least two columns")
       ELSE pc' = "select" /\ exc' = exc
    /\ UNCHANGED <<menu, uploaded_file, anomalies, forecast_period,
                   confidence_interval, forecast, model, metrics, insights, shown>>

\* lines 117-119
SelectFirstTwo ==
    /\ pc = "select"
    /\ data' = [ILocColumns(data, 2) EXCEPT !.columns = <<"ds", "y">>]
    /\ pc' = "coerce"
    /\ UNCHANGED <<menu, uploaded_file, anomalies, forecast_period,
                   confidence_interval, forecast, model, metrics, insights, shown, exc>>

\* lines 121-123
Coerce ==
    /\ pc = "coerce"
    /\ LET dated == AssignColumn(data, "ds",
                        [i \in 1..NRows(data) |-> ToDatetime(Col(data, "ds")[i])])
       IN data' = AssignColumn(dated, "y",
                        [i \in 1..NRows(data) |-> ToNumeric(Col(data, "y")[i])])
    /\ pc' = "dropna"
    /\ UNCHANGED <<menu, uploaded_file, anomalies, forecast_period,
                   confidence_interval, forecast, model, metrics, insights, shown, exc>>

\* lines 125-130
DropInvalid ==
    /\ pc = "dropna"
    /\ data' = DropNa(data)
    /\ IF NRows(DropNa(data)) = 0
       THEN Raise("ValueError: No valid data found after processing")
       ELSE pc' = "show_original" /\ exc' = exc
    /\ UNCHANGED <<menu, uploaded_file, anomalies, forecast_period,
                   confidence_interval, forecast, model, metrics, insights, shown>>

\* lines 132-134
ShowOriginal ==
    /\ pc = "show_original"
    /\ shown' = Append(shown, "original")
    /\ pc' = "detect"
    /\ UNCHANGED <<menu, uploaded_file, data, anomalies, forecast_period,
                   confidence_interval, forecast, model, metrics, insights, exc>>

\* lines 136-140: detect_anomalies works on the caller's frame
DetectAnomalies ==
    /\ pc = "detect"
    /\ LET r == detect_anomalies(data)
       IN /\ data' = r.data
          /\ anomalies' = r.anomalies
          /\ shown' = IF NRows(r.anomalies) # 0
                      THEN Append(shown, "anomalies") ELSE shown
    /\ pc' = "params"
    /\ UNCHANGED <<menu, uploaded_file, forecast_period, confidence_interval,
                   forecast, model, metrics, insights, exc>>

\* lines 142-148: the widgets return what the user has selected
SelectParams ==
    /\ pc = "params"
    /\ forecast_period' \in ForecastPeriods
    /\ confidence_interval' \in ConfidenceIntervals
    /\ pc' = "forecast"
    /\ UNCHANGED <<menu, uploaded_file, data, anomalies, forecast, model,
                   metrics, insights, shown, exc>>

\* line 150: the frame passed is the new frame that set_index returns
Forecast ==
    /\ pc = "forecast"
    /\ \E fit \in ProphetFits :
         LET r == forecast_traffic(SetIndex(data, "ds"), forecast_period,
                                   confidence_interval, fit)
         IN IF r.raised # ""
            THEN Raise(r.raised) /\ UNCHANGED <<forecast, model>>
            ELSE /\ forecast' = r.forecast
                 /\ model' = r.model
                 /\ pc' = "show_forecast"
                 /\ exc' = exc
    /\ UNCHANGED <<menu, uploaded_file, data, anomalies, forecast_period,
                   confidence_interval, metrics, insights, shown>>

\* lines 152-156
ShowForecast ==
    /\ pc = "show_forecast"
    /\ shown' = Append(shown, "forecast")
    /\ pc' = "download"
    /\ UNCHANGED <<menu, uploaded_file, data, anomalies, forecast_period,
                   confidence_interval, forecast, model, metrics, insights, exc>>

\* lines 158-163
OfferDownload ==
    /\ pc = "download"
    /\ shown' = Append(shown, "download")
    /\ pc' = "metrics"
    /\ UNCHANGED <<menu, uploaded_file, data, anomalies, forecast_period,
                   confidence_interval, forecast, model, metrics, insights, exc>>

\* line 166
Actuals == Series(data.index, Col(data, "y"))

\* line 167: forecast['yhat'][:len(actuals)]
Predictions ==
    Series(Take(forecast.index, NRows(data)), Take(Col(forecast, "yhat"), NRows(data)))

\* lines 165-172
ShowMetrics ==
    /\ pc = "metrics"
    /\ metrics' = calculate_accuracy_metrics(Actuals, Predictions)
    /\ shown' = Append(shown, "metrics")
    /\ pc' = "insights"
    /\ UNCHANGED <<menu, uploaded_file, data, anomalies, forecast_period,
                   confidence_interval, forecast, model, insights, exc>>

\* lines 174-177
ShowInsights ==
    /\ pc = "insights"
    /\ insights' = generate_insights(forecast)
    /\ shown' = Append(shown, "insights")
    /\ pc' = "plot"
    /\ UNCHANGED <<menu, uploaded_file, data, anomalies, forecast_period,
                   confidence_interval, forecast, model, metrics, exc>>

\* lines 179-182
ShowSeasonalPlot ==
    /\ pc = "plot"
    /\ shown' = Append(shown, "seasonal")
    /\ pc' = "done"
    /\ UNCHANGED <<menu, uploaded_file, data, anomalies, forecast_period,
                   confidence_interval, forecast, model, metrics, insights, exc>>

\* lines 184-185
HandleError ==
    /\ pc = "except"
    /\ shown' = Append(shown, "error")
    /\ pc' = "done"
    /\ UNCHANGED <<menu, uploaded_file, data, anomalies, forecast_period,
                   confidence_interval, forecast, model, metrics, insights, exc>>

\* A run of the script. After detect_anomalies has added its column, line 18
\* always raises, so the blocks of lines 152-182 are never entered by a run.
Next ==
    \/ ShowDocumentation
    \/ NoUpload
    \/ ReadFile
    \/ SelectFirstTwo
    \/ Coerce
    \/ DropInvalid
    \/ ShowOriginal
    \/ DetectAnomalies
    \/ SelectParams
    \/ Forecast
    \/ HandleError

Spec == Init /\ [][Next]_vars

(***************************************************************************)
(* detect_anomalies on longer series: the script at line 136, after a file *)
(* of consecutive months with valid values has been cleaned and displayed  *)
(***************************************************************************)
DetectValues == {1, 5, 10}

FirstMonth == <<2024, 1>>

\* the cleaned frame of a file of Len(ys) consecutive valid rows
CleanedFrame(ys) ==
    Frame(<<"ds", "y">>, [i \in 1..Len(ys) |-> Num(i - 1)],
          [i \in 1..Len(ys) |->
              <<Date(<<AddMonths(FirstMonth, i - 1)[1], AddMonths(FirstMonth, i - 1)[2], 1>>),
                Num(ys[i])>>])

InitDetect ==
    /\ pc = "detect"
    /\ menu = "Forecast Tool"
    /\ uploaded_file = NoFile
    /\ \E n \in 1..MaxDetectLen : \E ys \in [1..n -> DetectValues] :
         data = CleanedFrame(ys)
    /\ anomalies = EmptyFrame
    /\ forecast_period = 0
    /\ confidence_interval = 0
    /\ forecast = EmptyFrame
    /\ model = NoModel
    /\ metrics = NoMetrics
    /\ insights = NaN
    /\ shown = <<"original">>
    /\ exc = ""

NextDetect == DetectAnomalies

SpecDetect == InitDetect /\ [][NextDetect]_vars

(***************************************************************************)
(* forecast_traffic on a series of one value column, as its line 18        *)
(* expects, followed by the blocks of main that consume what it returns    *)
(***************************************************************************)
\* first-of-month timestamps, as line 122 produces them
SeriesMonths == { Date(<<2023, 12, 1>>), Date(<<2024, 1, 1>>), Date(<<2024, 2, 1>>) }

SeriesValues == {0, 10}

\* horizons: the radio options and the short ones
Horizons == (1..MaxHorizon) \cup ForecastPeriods

InitForecast ==
    /\ pc = "forecast"
    /\ menu = "Forecast Tool"
    /\ uploaded_file = NoFile
    /\ \E n \in 1..MaxSeriesLen, first \in {0, 1} :
         \E ds \in [1..n -> SeriesMonths], ys \in [1..n -> SeriesValues] :
           data = Frame(<<"ds", "y">>, [i \in 1..n |-> Num(first + i - 1)],
                        [i \in 1..n |-> <<ds[i], Num(ys[i])>>])
    /\ anomalies = EmptyFrame
    /\ forecast_period \in Horizons
    /\ confidence_interval \in ConfidenceIntervals
    /\ forecast = EmptyFrame
    /\ model = NoModel
    /\ metrics = NoMetrics
    /\ insights = NaN
    /\ shown = <<"original">>
    /\ exc = ""

NextForecast ==
    \/ Forecast
    \/ ShowForecast
    \/ OfferDownload
    \/ ShowMetrics
    \/ ShowInsights
    \/ ShowSeasonalPlot
    \/ HandleError

SpecForecast == InitForecast /\ [][NextForecast]_vars

(***************************************************************************)
(* Properties                                                              *)
(***************************************************************************)
Range(s) == {s[i] : i \in 1..Len(s)}

Displayed(name) == name \in Range(shown)

Tables == {"original", "anomalies", "forecast", "metrics"}

\* the series is in the hands of the anomaly or the forecast stage
HandedOn == pc \in {"detect", "forecast"}

\* --- what the uploaded text means, stated without the parsers -----------
Jan24 == Str(<<"J","a","n","-","2","4">>)
Dec23 == Str(<<"D","e","c","-","2","3">>)
Text7 == Str(<<"7">>)
Text10 == Str(<<"1","0">>)
TextAbc == Str(<<"a","b","c">>)

RecognisedMonth(label) == label \in {Jan24, Dec23}
MonthMeant(label) == IF label = Jan24 THEN Date(<<2024, 1, 1>>) ELSE Date(<<2023, 12, 1>>)
NumericText(value) == value \in {Text7, Text10}
NumberMeant(value) == IF value = Text7 THEN Num(7) ELSE Num(10)

\* positions of the uploaded rows that are valid, in load order
ValidPositions ==
    SelectIdx([i \in 1..Len(uploaded_file.rows) |->
                  /\ RecognisedMonth(uploaded_file.rows[i][1])
                  /\ NumericText(uploaded_file.rows[i][2])],
              1, Len(uploaded_file.rows))

\* a two-column upload has been through lines 117-130
Cleaned ==
    /\ uploaded_file.present
    /\ Len(uploaded_file.columns) >= 2
    /\ pc \notin {"start", "select", "coerce", "dropna"}

NoValidData == "ValueError: No valid data found after processing"

C5_AtLeastTwoPoints ==
    /\ HandedOn => NRows(data) >= 2
    /\ (Cleaned /\ Len(ValidPositions) < 2) => ~Displayed("forecast")

RECURSIVE KeepLastSorted(_)
\* rows <<ds, y>> ascending by ds, a repeated ds keeping its last row
KeepLastSorted(rows) ==
    IF rows = <<>> THEN <<>>
    ELSE LET m == CHOOSE x \in {rows[i][1] : i \in 1..Len(rows)} :
                     \A j \in 1..Len(rows) : ~DateLT(rows[j][1], x)
             last == CHOOSE i \in 1..Len(rows) :
                        /\ rows[i][1] = m
                        /\ \A j \in (i + 1)..Len(rows) : rows[j][1] # m
             rest == SelectIdx([i \in 1..Len(rows) |-> rows[i][1] # m], 1, Len(rows))
         IN <<rows[last]>> \o KeepLastSorted([i \in 1..Len(rest) |-> rows[rest[i]]])

\* C6: the series handed to the anomaly and forecast stages has strictly
\* increasing timestamps: the valid rows sorted ascending by timestamp, a
\* repeated timestamp keeping only its last occurrence in load order.
C6_SortedUnique ==
    (HandedOn /\ uploaded_file.present) =>
        LET v == ValidPositions
            valid == [i \in 1..Len(v) |->
                        <<MonthMeant(uploaded_file.rows[v[i]][1]),
                          NumberMeant(uploaded_file.rows[v[i]][2])>>]
            ds == Col(data, "ds")
        IN /\ \A i \in 1..(Len(ds) - 1) : DateLT(ds[i], ds[i + 1])
           /\ [i \in 1..NRows(data) |-> <<ds[i], Col(data, "y")[i]>>] = KeepLastSorted(valid)

\* C2: a Forecast Tool run on a file with at least 2 valid rows hands
\* forecast_traffic a frame with exactly one value column and ends with the
\* forecast table displayed and the download offered, not with the error.
C2_RunReachesForecast ==
    /\ pc = "forecast" => Len(SetIndex(data, "ds").columns) = 1
    /\ (pc = "done" /\ Cleaned /\ Len(ValidPositions) >= 2) =>
           /\ Displayed("forecast")
           /\ Displayed("download")
           /\ ~Displayed("error")

\* C3: detect_anomalies and forecast_traffic leave the caller's series as it
\* was: same columns, same index, same values.
C3_StagesDoNotMutate == [][HandedOn => data' = data]_vars

\* C7: a run that ends in the error state has displayed none of the
\* historical-data, anomaly, forecast and accuracy-metrics tables.
C7_NoPartialOutput ==
    Displayed("error") => \A t \in Tables : ~Displayed(t)

\* --- detect_anomalies ----------------------------------------------------
\* the sum over the pairs i < j of (y_i - y_j)^2, which is n(n-1) times the
\* sample variance
PairwiseSS(ys) ==
    SumSeq(Tuple([k \in 1..(Len(ys) * Len(ys)) |->
              LET i == ((k - 1) \div Len(ys)) + 1
                  j == ((k - 1) % Len(ys)) + 1
              IN IF i < j THEN (ys[i] - ys[j]) * (ys[i] - ys[j]) ELSE 0]))

\* |y_i - mean| > 2 * sample standard deviation, cleared of its quotients
BeyondTwoSigma(i, ys) ==
    LET n == Len(ys)
        d == n * ys[i] - SumSeq(ys)
    IN d * d * (n - 1) > 4 * n * PairwiseSS(ys)

\* C8: detect_anomalies returns exactly the points whose absolute deviation
\* from the mean is strictly greater than 2 sample standard deviations of
\* the whole series, in order, and none when the deviation is zero.
C8_TwoSigmaRule ==
    pc = "params" =>
        LET ys == Ints(Col(data, "y"))
            hit == SelectIdx([i \in 1..Len(ys) |-> BeyondTwoSigma(i, ys)], 1, Len(ys))
        IN /\ anomalies.columns = <<"ds", "y", "z_score">>
           /\ anomalies.index = [i \in 1..Len(hit) |-> data.index[hit[i]]]
           /\ Col(anomalies, "ds") = [i \in 1..Len(hit) |-> Col(data, "ds")[hit[i]]]
           /\ Col(anomalies, "y") = [i \in 1..Len(hit) |-> Col(data, "y")[hit[i]]]
           /\ PairwiseSS(ys) = 0 => NRows(anomalies) = 0

\* C8 witness: some points of a series were returned and others were not
C8_Witness ==
    /\ pc = "params"
    /\ NRows(anomalies) >= 1
    /\ NRows(anomalies) < NRows(data)

\* --- forecast_traffic and the metrics ------------------------------------
\* forecast_traffic has returned
Forecasted == model.fitted

\* C1: forecast_traffic returns exactly forecast_period rows, strictly
\* increasing, one per calendar month, all after the last historical
\* timestamp, none in a calendar month that the history already has.
C1_ProjectionBeyondHistory ==
    Forecasted =>
        LET p == Col(forecast, "ds")
            h == Col(data, "ds")
        IN /\ Len(p) = forecast_period
           /\ \A i \in 1..(Len(p) - 1) :
                 /\ DateLT(p[i], p[i + 1])
                 /\ MonthOf(p[i + 1]) = AddMonths(MonthOf(p[i]), 1)
           /\ \A i \in 1..Len(p) : DateGT(p[i], DateMax(h))
           /\ \A i \in 1..Len(p), j \in 1..Len(h) : MonthOf(p[i]) # MonthOf(h[j])

\* the labels at which line 168 pairs an actual with a prediction
PairedLabels == Range(Actuals.index) \cap Range(Predictions.index)

\* the timestamp of the forecast row that carries a prediction label
PredictedDs(label) == Col(forecast, "ds")[IndexOf(forecast.index, label, 1)]

\* the timestamp of the historical row that carries an actual label
ActualDs(label) == Col(data, "ds")[IndexOf(data.index, label, 1)]

\* C9: the predictions passed to calculate_accuracy_metrics are values for
\* historical timestamps, never for projected months, and each pair
\* (actual, predicted) is for the same month.
C9_MetricsPairSameMonth ==
    Displayed("metrics") =>
        /\ \A l \in Range(Predictions.index) : PredictedDs(l) \in Range(Col(data, "ds"))
        /\ \A l \in PairedLabels : MonthOf(PredictedDs(l)) = MonthOf(ActualDs(l))

\* C10: with zero values among the actuals, MAPE is still finite: the mean
\* over the paired points whose actual is not zero.
C10_MapeFinite ==
    (/\ Displayed("metrics")
     /\ \E l \in PairedLabels : AtLabel(Actuals, l) # Num(0)) =>
        Tag(metrics.mape) = "frac"

====
